---- MODULE Spec2Model ----
(***************************************************************************)
(* A model of the chatbot-3 job lookup tool: the Zoho Recruit client       *)
(* (zoho_api.py), its text clean-up, and the OpenAI embedding client       *)
(* (openai_api.py).                                                        *)
(*                                                                         *)
(* Python values are modelled as tagged tuples, so that a dictionary may   *)
(* hold strings, booleans, None and nested dictionaries side by side:      *)
(*   None, Str(s), Bool(b), Dict(f), List(q)                               *)
(* A raised exception is the value Raised(msg).                            *)
(***************************************************************************)
EXTENDS Integers, Sequences, FiniteSets, TLC

VARIABLES
    current_access_token, \* zoho_api._current_access_token, the token cell
    req,                  \* what the last make_zoho_api_request did
    response,             \* the upstream answer to the job GET
    fetched,              \* what fetch_job_data returned
    job_info,             \* what extract_job_info returned
    similarity_data,      \* what get_job_for_similarity returned
    raw,                  \* a raw job description
    cleaned,              \* clean_job_description(raw)
    recleaned,            \* clean_job_description(cleaned)
    payload,              \* the similarity data given to the embedding client
    provider,             \* the embedding provider's answer
    embedding_text,       \* what prepare_embedding_text returned
    embedding_result,     \* what embed_job_with_metadata returned
    env,                  \* the environment variables the process starts with
    variant,              \* which zoho_api module the process loads
    proc,                 \* "starting", "aborted" (import raised) or "running"
    token_result,         \* what get_fresh_access_token_from_refresh returned
    lookup                \* what the last fetch_job_data call sent and got

reqVars   == <<current_access_token, req>>
jobVars   == <<response, fetched, job_info, similarity_data>>
cleanVars == <<raw, cleaned, recleaned>>
embedVars == <<payload, provider, embedding_text, embedding_result>>
appVars   == <<env, variant, proc, token_result, lookup>>
vars      == <<reqVars, jobVars, cleanVars, embedVars, appVars>>

----------------------------------------------------------------------------
(* Python values *)

None      == <<"none">>
Str(s)    == <<"str", s>>
Bool(b)   == <<"bool", b>>
Dict(f)   == <<"dict", f>>
List(q)   == <<"list", q>>
Num(n)    == <<"int", n>>
Raised(m) == <<"raised", m>>
Pending   == <<"pending">>

Tag(v)      == v[1]
Val(v)      == v[2]
IsRaised(v) == Tag(v) = "raised"

\* bool(v): None, "", False, {} and [] are falsy
Truthy(v) ==
    CASE Tag(v) = "none" -> FALSE
      [] Tag(v) = "str"  -> Val(v) # ""
      [] Tag(v) = "bool" -> Val(v)
      [] Tag(v) = "dict" -> DOMAIN Val(v) # {}
      [] Tag(v) = "list" -> Len(Val(v)) > 0
      [] Tag(v) = "int"  -> Val(v) # 0
      [] OTHER           -> TRUE

EmptyDict == Dict(<<>>)

\* d.get(k, default) on a dictionary
Get(d, k, default) == IF k \in DOMAIN Val(d) THEN Val(d)[k] ELSE default

\* k in d
Has(d, k) == k \in DOMAIN Val(d)

\* str(v), as an f-string formats a value
Format(v) ==
    CASE Tag(v) = "str"  -> Val(v)
      [] Tag(v) = "bool" -> IF Val(v) THEN "True" ELSE "False"
      [] Tag(v) = "none" -> "None"
      [] Tag(v) = "int"  -> ToString(Val(v))
      [] OTHER           -> "?"

----------------------------------------------------------------------------
(* The token cell and the authenticated request (zoho_api.py, first half) *)

Tokens == {"tokA", "tokB"}

\* What the token endpoint can answer to the POST of get_fresh_access_token
RefreshOutcomes ==
    [kind : {"resp"}, status : {200}, access_token : {Str(t) : t \in Tokens} \cup {None, Str("")}]
    \cup [kind : {"resp"}, status : {400}, access_token : {None}]
    \cup [kind : {"exc"}, status : {0}, access_token : {None}]

Body1 == Dict([data |-> List(<<Dict([id |-> Str("1")])>>)])
Body2 == Dict([data |-> List(<<>>)])
ErrBody == Dict([code |-> Str("INVALID_TOKEN")])

\* What the recruiting platform can answer to a GET
GetOutcomes ==
    [kind : {"resp"}, status : {200}, json : {Body1, Body2}, msg : {""}]
    \cup [kind : {"resp"}, status : {401, 500}, json : {ErrBody}, msg : {""}]
    \cup [kind : {"exc"}, status : {0}, json : {None}, msg : {"timed out"}]

\* get_fresh_access_token clearing the cell when the refresh fails
get_fresh_access_token_clearing(cell, post) ==
    IF post.kind = "resp" /\ post.status = 200 /\ Truthy(post.access_token)
    THEN [ret |-> post.access_token, cell |-> post.access_token, refreshes |-> 1]
    ELSE [ret |-> None, cell |-> None, refreshes |-> 1]

\* get_fresh_access_token: the cell is written only by a 200 answer that
\* carries a non-empty access_token; every other answer returns None
get_fresh_access_token(cell, post) ==
    IF post.kind = "resp" /\ post.status = 200 /\ Truthy(post.access_token)
    THEN [ret |-> post.access_token, cell |-> post.access_token, refreshes |-> 1]
    ELSE [ret |-> None, cell |-> cell, refreshes |-> 1]

get_valid_access_token_always(cell, post) == get_fresh_access_token(cell, post)

\* get_valid_access_token: refresh only when the cell holds no token
get_valid_access_token(cell, post) ==
    IF ~Truthy(cell)
    THEN get_fresh_access_token(cell, post)
    ELSE [ret |-> cell, cell |-> cell, refreshes |-> 0]

\* The result built from the last response of a request
FinalResult(get) ==
    IF get.kind = "exc"
    THEN Dict([error |-> Bool(TRUE), message |-> Str("Request failed: " \o get.msg)])
    ELSE IF get.status = 200
         THEN get.json
         ELSE Dict([error |-> Bool(TRUE), status_code |-> Num(get.status),
                    message |-> Str("API Error: " \o ToString(get.status))])

\* The part of make_zoho_api_request that follows a successful refresh on 401:
\* the original GET is issued once more, with the fresh token
RetryWithFreshToken(fresh, g2) ==
    [gets |-> <<[auth |-> fresh, outcome |-> g2]>>, result |-> FinalResult(g2)]

\* The record of one call of get_fresh_access_token: the answer it got, what
\* it returned, the cell before and after, and how many GETs the request had
\* issued before it
RefreshLog(calls, before, post, r, gets_before) ==
    IF calls = 0 THEN <<>>
    ELSE <<[post |-> post, ret |-> r.ret, before |-> before, after |-> r.cell,
            gets_before |-> gets_before]>>

\* make_zoho_api_request without its reaction to a 401
make_zoho_api_request_once(cell, retry_on_401, f0, g1, f1, g2) ==
    LET tok == get_valid_access_token(cell, f0) IN
    IF ~Truthy(tok.ret)
    THEN [cell |-> tok.cell, refresh_calls |-> tok.refreshes, gets |-> <<>>,
          refreshes |-> RefreshLog(tok.refreshes, cell, f0, tok, 0),
          result |-> Dict([error |-> Bool(TRUE),
                           message |-> Str("Unable to get valid access token")])]
    ELSE [cell |-> tok.cell, refresh_calls |-> tok.refreshes,
          refreshes |-> RefreshLog(tok.refreshes, cell, f0, tok, 0),
          gets |-> <<[auth |-> tok.ret, outcome |-> g1]>>, result |-> FinalResult(g1)]

\* make_zoho_api_request with the retry written as a loop: a 401 to the
\* retried GET refreshes and retries once more
make_zoho_api_request_loop(cell, retry_on_401, f0, g1, f1, g2) ==
    LET tok == get_valid_access_token(cell, f0) IN
    IF ~Truthy(tok.ret)
    THEN [cell |-> tok.cell, refresh_calls |-> tok.refreshes, gets |-> <<>>,
          refreshes |-> RefreshLog(tok.refreshes, cell, f0, tok, 0),
          result |-> Dict([error |-> Bool(TRUE),
                           message |-> Str("Unable to get valid access token")])]
    ELSE LET first == <<[auth |-> tok.ret, outcome |-> g1]>> IN
         IF g1.kind = "resp" /\ g1.status = 401 /\ retry_on_401
         THEN LET fresh == get_fresh_access_token(tok.cell, f1) IN
              IF Truthy(fresh.ret)
              THEN LET again == RetryWithFreshToken(fresh.ret, g2) IN
                   IF g2.kind = "resp" /\ g2.status = 401
                   THEN [cell |-> fresh.cell,
                         refresh_calls |-> tok.refreshes + 2 * fresh.refreshes,
                         refreshes |-> RefreshLog(tok.refreshes, cell, f0, tok, 0)
                                       \o RefreshLog(1, tok.cell, f1, fresh, 1)
                                       \o RefreshLog(1, fresh.cell, f1, fresh, 2),
                         gets |-> first \o again.gets \o again.gets,
                         result |-> again.result]
                   ELSE [cell |-> fresh.cell,
                         refresh_calls |-> tok.refreshes + fresh.refreshes,
                         refreshes |-> RefreshLog(tok.refreshes, cell, f0, tok, 0)
                                       \o RefreshLog(1, tok.cell, f1, fresh, 1),
                         gets |-> first \o again.gets, result |-> again.result]
              ELSE [cell |-> fresh.cell,
                    refresh_calls |-> tok.refreshes + fresh.refreshes,
                    refreshes |-> RefreshLog(tok.refreshes, cell, f0, tok, 0)
                                  \o RefreshLog(fresh.refreshes, tok.cell, f1, fresh, 1),
                    gets |-> first, result |-> FinalResult(g1)]
         ELSE [cell |-> tok.cell, refresh_calls |-> tok.refreshes,
               refreshes |-> RefreshLog(tok.refreshes, cell, f0, tok, 0),
               gets |-> first, result |-> FinalResult(g1)]

\* make_zoho_api_request as a function of the cell and of what the two
\* endpoints answer: f0 answers the refresh of an unset cell, g1 the first
\* GET, f1 the refresh made on a 401, g2 the GET made after that refresh.
\* The source holds the function up to the refresh made on a 401; what
\* follows it (RetryWithFreshToken, FinalResult, and the result when that
\* refresh fails) is taken from the specification's description of the
\* authenticated request.
make_zoho_api_request(cell, retry_on_401, f0, g1, f1, g2) ==
    LET tok == get_valid_access_token(cell, f0) IN
    IF ~Truthy(tok.ret)
    THEN [cell |-> tok.cell, refresh_calls |-> tok.refreshes, gets |-> <<>>,
          refreshes |-> RefreshLog(tok.refreshes, cell, f0, tok, 0),
          result |-> Dict([error |-> Bool(TRUE),
                           message |-> Str("Unable to get valid access token")])]
    ELSE LET first == <<[auth |-> tok.ret, outcome |-> g1]>> IN
         IF g1.kind = "resp" /\ g1.status = 401 /\ retry_on_401
         THEN LET fresh == get_fresh_access_token(tok.cell, f1) IN
              IF Truthy(fresh.ret)
              THEN LET again == RetryWithFreshToken(fresh.ret, g2) IN
                   [cell |-> fresh.cell,
                    refresh_calls |-> tok.refreshes + fresh.refreshes,
                    refreshes |-> RefreshLog(tok.refreshes, cell, f0, tok, 0)
                                  \o RefreshLog(fresh.refreshes, tok.cell, f1, fresh, 1),
                    gets |-> first \o again.gets, result |-> again.result]
              ELSE [cell |-> fresh.cell,
                    refresh_calls |-> tok.refreshes + fresh.refreshes,
                    refreshes |-> RefreshLog(tok.refreshes, cell, f0, tok, 0)
                                  \o RefreshLog(fresh.refreshes, tok.cell, f1, fresh, 1),
                    gets |-> first, result |-> FinalResult(g1)]
         ELSE [cell |-> tok.cell, refresh_calls |-> tok.refreshes,
               refreshes |-> RefreshLog(tok.refreshes, cell, f0, tok, 0),
               gets |-> first, result |-> FinalResult(g1)]

\* The last request made a refresh that failed
RefreshFailed(r) == \E i \in 1..Len(r.refreshes) : ~Truthy(r.refreshes[i].ret)

\* One call of make_zoho_api_request, in a started process that loaded the
\* module with the token cell; the token endpoint answers from posts, the
\* recruiting platform from answers
Request(posts, answers) ==
    /\ proc = "running"
    /\ variant = "refresh"
    /\ \E retry_on_401 \in BOOLEAN, f0 \in posts, g1 \in answers,
          f1 \in posts, g2 \in answers :
          LET r == make_zoho_api_request(current_access_token, retry_on_401,
                                         f0, g1, f1, g2) IN
          /\ current_access_token' = r.cell
          /\ req' = [start_token |-> current_access_token,
                     retry_on_401 |-> retry_on_401,
                     refresh_calls |-> r.refresh_calls,
                     refreshes |-> r.refreshes,
                     after_failure |-> RefreshFailed(req),
                     gets |-> r.gets, result |-> r.result]
    /\ UNCHANGED <<jobVars, cleanVars, embedVars, appVars>>

MakeZohoApiRequest == Request(RefreshOutcomes, GetOutcomes)

IdleJob   == response = Pending /\ fetched = Pending /\ job_info = Pending
             /\ similarity_data = Pending
IdleClean == raw = Pending /\ cleaned = Pending /\ recleaned = Pending
IdleEmbed == payload = Pending /\ provider = Pending /\ embedding_text = Pending
             /\ embedding_result = Pending
NoRequest == [start_token |-> None, retry_on_401 |-> FALSE, refresh_calls |-> 0,
              refreshes |-> <<>>, after_failure |-> FALSE,
              gets |-> <<>>, result |-> Pending]
IdleReq   == current_access_token = None /\ req = NoRequest

\* The environment variables the three modules read
EnvKeys == {"ZOHO_CLIENT_ID", "ZOHO_CLIENT_SECRET", "ZOHO_REFRESH_TOKEN",
            "ZOHO_ACCESS_TOKEN", "OPENAI_API_KEY"}

EnvValue(k) == IF k = "ZOHO_ACCESS_TOKEN" THEN Str("tok0") ELSE Str("set")

\* Every variable is unset (os.getenv gives None), empty, or set
Envs ==
    {[k \in EnvKeys |-> IF k \in unset THEN None
                        ELSE IF k \in empty THEN Str("") ELSE EnvValue(k)] :
        unset \in SUBSET EnvKeys, empty \in SUBSET EnvKeys}

FullEnv == [k \in EnvKeys |-> EnvValue(k)]

NoLookup == [authorization |-> "", after |-> Pending, result |-> Pending]

NoPost == [kind |-> "none", status |-> 0, json |-> None, text |-> "", msg |-> ""]

NoTokenResult == [answer |-> NoPost, result |-> Pending]

\* A started process that has used neither the refresh helper nor the lookup
IdleApp ==
    /\ env = FullEnv /\ variant = "static" /\ proc = "running"
    /\ token_result = NoTokenResult /\ lookup = NoLookup

\* A started process. With the module that holds the token cell,
\* _current_access_token = os.getenv('ZOHO_ACCESS_TOKEN'), set or not; the
\* module with the static token has no cell and starts only with the token
InitReq ==
    /\ variant \in {"refresh", "static"}
    /\ env \in {FullEnv} \cup (IF variant = "refresh"
                               THEN {[FullEnv EXCEPT !["ZOHO_ACCESS_TOKEN"] = None]}
                               ELSE {})
    /\ proc = "running"
    /\ token_result = NoTokenResult
    /\ lookup = NoLookup
    /\ current_access_token = (IF variant = "refresh" THEN env["ZOHO_ACCESS_TOKEN"]
                               ELSE None)
    /\ req = NoRequest
    /\ IdleJob /\ IdleClean /\ IdleEmbed

\* The last request met a 401 on its first GET and a 200 on the GET issued
\* after the refresh
Recovered401 ==
    /\ req.retry_on_401
    /\ Len(req.gets) = 2
    /\ req.gets[1].outcome.kind = "resp" /\ req.gets[1].outcome.status = 401
    /\ req.gets[2].outcome.kind = "resp" /\ req.gets[2].outcome.status = 200

\* The last response of the last request was a failure
LastGetFailed ==
    /\ Len(req.gets) > 0
    /\ LET last == req.gets[Len(req.gets)].outcome IN
       last.kind = "exc" \/ last.status # 200

IsErrorResult(r) == Tag(r) = "dict" /\ Has(r, "error") /\ Truthy(Val(r)["error"])

\* C1 as stated: a request whose first GET answers 401 and whose GET after
\* the refresh answers 200 returns the second body and refreshes exactly once.
C1_AsStated ==
    Recovered401 =>
        /\ req.result = req.gets[2].outcome.json
        /\ req.refresh_calls = 1

\* C1, amended: such a request returns the second response's body, and it
\* refreshes exactly once when the token cell held a token at the start of
\* the request, twice when the cell was unset (once to obtain a token, once
\* in reaction to the 401).
C1_RecoveredRequest ==
    Recovered401 =>
        /\ req.result = req.gets[2].outcome.json
        /\ req.refresh_calls = IF Truthy(req.start_token) THEN 1 ELSE 2

C1_Witness ==
    /\ Recovered401
    /\ Truthy(req.start_token)
    /\ req.result = Body1
    /\ req.refresh_calls = 1

\* C2 as stated: one request triggers at most one token refresh and at most
\* one retry of the GET, and a failed retry ends the request with an error.
C2_AsStated ==
    /\ req.refresh_calls <= 1
    /\ Len(req.gets) <= 2
    /\ (Len(req.gets) = 2 /\ LastGetFailed) => IsErrorResult(req.result)

\* C2, amended: one request refreshes at most once in reaction to a 401 (at
\* most twice in all, the other refresh being the one that fills an unset
\* cell before the first GET) and issues the GET at most twice, the second
\* time only after a 401 with retry enabled; when the retried GET fails the
\* request ends with an error result.
C2_BoundedRetry ==
    /\ req.refresh_calls <= (IF Truthy(req.start_token) THEN 1 ELSE 2)
    /\ Len(req.gets) <= 2
    /\ Len(req.gets) = 2 =>
          /\ req.retry_on_401
          /\ req.gets[1].outcome.kind = "resp" /\ req.gets[1].outcome.status = 401
    /\ (Len(req.gets) = 2 /\ LastGetFailed) => IsErrorResult(req.result)

C2_Witness ==
    /\ Len(req.gets) = 2
    /\ req.gets[2].outcome.kind = "resp" /\ req.gets[2].outcome.status = 401
    /\ IsErrorResult(req.result)
    /\ req.refresh_calls = 1

\* The answer to a refresh POST carries no usable token
PostFailed(post) ==
    post.kind = "exc" \/ post.status # 200 \/ ~Truthy(post.access_token)

\* The first GET of the last request answered 401
FirstGet401 ==
    /\ Len(req.gets) >= 1
    /\ req.gets[1].outcome.kind = "resp" /\ req.gets[1].outcome.status = 401

\* C12: a request in which a token refresh fails ends with an error result,
\* and the failure does not stick to the process: the request that follows
\* one with a failed refresh refreshes again when the token cell is unset
\* (before its first GET) and when its first GET answers 401 with retry
\* enabled (after that GET).
C12_FailedNotSticky ==
    /\ RefreshFailed(req) => IsErrorResult(req.result)
    /\ (req.after_failure /\ req.result # Pending /\ ~Truthy(req.start_token)) =>
          /\ Len(req.refreshes) >= 1
          /\ req.refreshes[1].gets_before = 0
    /\ (req.after_failure /\ req.retry_on_401 /\ FirstGet401) =>
          \E i \in 1..Len(req.refreshes) : req.refreshes[i].gets_before = 1

\* A request that follows a failed refresh, starts with the cell unset,
\* refreshes with success and returns the body
C12_Witness ==
    /\ req.after_failure
    /\ ~Truthy(req.start_token)
    /\ Len(req.refreshes) = 1
    /\ ~RefreshFailed(req)
    /\ req.result = Body1

\* A request that follows a failed refresh and refreshes again on a 401
C12_WitnessOn401 ==
    /\ req.after_failure
    /\ Truthy(req.start_token)
    /\ FirstGet401
    /\ Len(req.refreshes) = 1
    /\ req.refreshes[1].gets_before = 1

\* C15: a refresh whose answer is a non-200 status, a 200 without an access
\* token or a transport exception returns None and leaves the token cell as
\* it was; the cell changes only by a refresh that returned a non-empty
\* access token, to that token; and every refresh is made either before the
\* first GET with the cell unset, or after a GET that answered 401.
C15_RefreshFrame ==
    req.result # Pending =>
        /\ \A i \in 1..Len(req.refreshes) :
              LET f == req.refreshes[i] IN
              /\ PostFailed(f.post) => (f.ret = None /\ f.after = f.before)
              /\ ~PostFailed(f.post) =>
                    (f.ret = f.post.access_token /\ f.after = f.post.access_token)
              /\ \/ f.gets_before = 0 /\ ~Truthy(f.before)
                 \/ /\ f.gets_before >= 1 /\ f.gets_before <= Len(req.gets)
                    /\ req.gets[f.gets_before].outcome.kind = "resp"
                    /\ req.gets[f.gets_before].outcome.status = 401
              /\ f.before = (IF i = 1 THEN req.start_token
                             ELSE req.refreshes[i - 1].after)
        /\ current_access_token =
              (IF Len(req.refreshes) = 0 THEN req.start_token
               ELSE req.refreshes[Len(req.refreshes)].after)

\* A refresh made on a 401 fails and the cell keeps the token it held
C15_Witness ==
    /\ Len(req.refreshes) = 1
    /\ req.refreshes[1].gets_before = 1
    /\ PostFailed(req.refreshes[1].post)
    /\ req.refreshes[1].ret = None
    /\ Truthy(req.start_token)
    /\ current_access_token = req.start_token

----------------------------------------------------------------------------
(* clean_job_description (zoho_api.py) *)

MaxLen == 5

\* The characters raw descriptions are drawn from: the tag delimiters, a
\* letter, and two whitespace characters
Alphabet == {"<", ">", "a", " ", "\n"}

\* What \s matches and what str.strip() removes
Whitespace == {" ", "\n", "\t", "\r"}

RECURSIVE Strings(_)
Strings(n) ==
    IF n = 0 THEN {""}
    ELSE LET shorter == Strings(n - 1) IN
         shorter \cup {s \o c : s \in shorter, c \in Alphabet}

Ch(s, i) == SubSeq(s, i, i)

\* The position of the first ">" of s at or after i, 0 when there is none
RECURSIVE FirstGt(_, _)
FirstGt(s, i) ==
    IF i > Len(s) THEN 0
    ELSE IF Ch(s, i) = ">" THEN i ELSE FirstGt(s, i + 1)

\* re.sub(r'<[^>]+>', '', s), scanning s from position i: a "<" starts a
\* match when the next ">" lies at least two characters further on
RECURSIVE StripTagsFrom(_, _)
StripTagsFrom(s, i) ==
    IF i > Len(s) THEN ""
    ELSE IF Ch(s, i) = "<" /\ FirstGt(s, i + 1) > i + 1
         THEN StripTagsFrom(s, FirstGt(s, i + 1) + 1)
         ELSE Ch(s, i) \o StripTagsFrom(s, i + 1)

StripTags(s) == StripTagsFrom(s, 1)

\* The first position of s at or after i that holds no whitespace
RECURSIVE SkipWhitespace(_, _)
SkipWhitespace(s, i) ==
    IF i > Len(s) \/ Ch(s, i) \notin Whitespace THEN i
    ELSE SkipWhitespace(s, i + 1)

\* re.sub(r'\s\s', ' ', s): whitespace replaced pair by pair
RECURSIVE CollapsePairsFrom(_, _)
CollapsePairsFrom(s, i) ==
    IF i > Len(s) THEN ""
    ELSE IF i < Len(s) /\ Ch(s, i) \in Whitespace /\ Ch(s, i + 1) \in Whitespace
         THEN " " \o CollapsePairsFrom(s, i + 2)
         ELSE Ch(s, i) \o CollapsePairsFrom(s, i + 1)

CollapsePairs(s) == CollapsePairsFrom(s, 1)

\* re.sub(r'\s+', ' ', s), scanning s from position i
RECURSIVE CollapseFrom(_, _)
CollapseFrom(s, i) ==
    IF i > Len(s) THEN ""
    ELSE IF Ch(s, i) \in Whitespace
         THEN " " \o CollapseFrom(s, SkipWhitespace(s, i))
         ELSE Ch(s, i) \o CollapseFrom(s, i + 1)

CollapseWhitespace(s) == CollapseFrom(s, 1)

\* The last position of s at or before i that holds no whitespace
RECURSIVE SkipWhitespaceBack(_, _)
SkipWhitespaceBack(s, i) ==
    IF i < 1 \/ Ch(s, i) \notin Whitespace THEN i
    ELSE SkipWhitespaceBack(s, i - 1)

NoStrip(s) == s

\* s.strip()
Strip(s) == SubSeq(s, SkipWhitespace(s, 1), SkipWhitespaceBack(s, Len(s)))

\* clean_job_description: "" for None or "", else tags removed, whitespace
\* runs collapsed, ends stripped
clean_job_description(job_description) ==
    IF ~Truthy(job_description)
    THEN Str("")
    ELSE Str(Strip(CollapseWhitespace(StripTags(Val(job_description)))))

RawDescriptions == {None} \cup {Str(s) : s \in Strings(MaxLen)}

InitClean ==
    /\ raw \in RawDescriptions
    /\ cleaned = Pending
    /\ recleaned = Pending
    /\ IdleReq /\ IdleApp /\ IdleJob /\ IdleEmbed

\* clean_job_description(raw)
CleanJobDescription ==
    /\ cleaned = Pending
    /\ cleaned' = clean_job_description(raw)
    /\ UNCHANGED <<raw, recleaned, reqVars, appVars, jobVars, embedVars>>

\* clean_job_description applied to its own output
CleanAgain ==
    /\ cleaned # Pending
    /\ recleaned = Pending
    /\ recleaned' = clean_job_description(cleaned)
    /\ UNCHANGED <<raw, cleaned, reqVars, appVars, jobVars, embedVars>>

NextClean == CleanJobDescription \/ CleanAgain

SpecClean == InitClean /\ [][NextClean]_vars

\* s holds a "<" and, somewhere after it, a ">"
HasDelimited(s) ==
    \E i \in 1..Len(s), j \in 1..Len(s) : i < j /\ Ch(s, i) = "<" /\ Ch(s, j) = ">"

\* s holds a tag: a "<", one or more characters other than ">", and a ">"
HasTag(s) ==
    \E i \in 1..Len(s), j \in 1..Len(s) :
        /\ i + 1 < j
        /\ Ch(s, i) = "<" /\ Ch(s, j) = ">"
        /\ \A k \in (i + 1)..(j - 1) : Ch(s, k) # ">"

HasWhitespaceRun(s) ==
    \E i \in 1..(Len(s) - 1) : Ch(s, i) \in Whitespace /\ Ch(s, i + 1) \in Whitespace

HasOuterWhitespace(s) ==
    Len(s) > 0 /\ (Ch(s, 1) \in Whitespace \/ Ch(s, Len(s)) \in Whitespace)

\* C5 as stated: the cleaned description holds no substring delimited by
\* "<" and ">", no run of two or more whitespace characters and no leading
\* or trailing whitespace, and is "" for an empty or absent input.
C5_AsStated ==
    cleaned # Pending =>
        /\ ~HasDelimited(Val(cleaned))
        /\ ~HasWhitespaceRun(Val(cleaned))
        /\ ~HasOuterWhitespace(Val(cleaned))
        /\ ~Truthy(raw) => cleaned = Str("")

\* C5, amended: the cleaned description holds no tag (a "<", one or more
\* characters other than ">", then a ">"), no run of two or more whitespace
\* characters and no leading or trailing whitespace, and is "" for an empty
\* or absent input; a "<" directly followed by ">" is kept.
C5_CleanOutput ==
    cleaned # Pending =>
        /\ ~HasTag(Val(cleaned))
        /\ ~HasWhitespaceRun(Val(cleaned))
        /\ ~HasOuterWhitespace(Val(cleaned))
        /\ ~Truthy(raw) => cleaned = Str("")

C5_Witness ==
    /\ cleaned # Pending
    /\ Truthy(raw)
    /\ HasTag(Val(raw))
    /\ HasOuterWhitespace(Val(raw))
    /\ cleaned = Str("a")

\* C6: cleaning is idempotent: cleaning a cleaned description returns it
\* unchanged.
C6_Idempotent ==
    recleaned # Pending => recleaned = cleaned

C6_Witness ==
    /\ recleaned # Pending
    /\ Truthy(raw)
    /\ HasWhitespaceRun(Val(raw))
    /\ cleaned # raw
    /\ Val(cleaned) # ""
    /\ recleaned = cleaned

----------------------------------------------------------------------------
(* fetch_job_data, extract_job_info, get_job_for_similarity (zoho_api.py) *)

MaxAbsent == 2

\* extract_job_info's fields read with .get(key, default):
\* <<key of the result, key of the Zoho record, default>>
PlainFields == <<
    <<"job_id", "id", Str("")>>,
    <<"requisition_number", "Job_Opening_ID", Str("")>>,
    <<"job_title", "Job_Opening_Name", Str("")>>,
    <<"posting_title", "Posting_Title", Str("")>>,
    <<"job_description", "Job_Description", Str("")>>,
    <<"salary", "Salary", Str("")>>,
    <<"currency", "$currency_symbol", Str("")>>,
    <<"status", "Job_Opening_Status", Str("")>>,
    <<"remote_job", "Remote_Job", Bool(FALSE)>>,
    <<"date_opened", "Date_Opened", Str("")>>,
    <<"target_date", "Target_Date", Str("")>>,
    <<"work_experience", "Work_Experience", Str("")>>,
    <<"number_of_positions", "Number_of_Positions", Str("")>> >>

\* extract_job_info's fields read from a nested {name, id} relation
NestedFields == <<
    <<"client_name", "Client_Name">>,
    <<"account_manager", "Account_Manager">> >>

PlainIdx  == 1..Len(PlainFields)
NestedIdx == 1..Len(NestedFields)

PlainSourceKeys  == {PlainFields[i][2] : i \in PlainIdx}
NestedSourceKeys == {NestedFields[i][2] : i \in NestedIdx}
TargetKeys == {PlainFields[i][1] : i \in PlainIdx}
              \cup {NestedFields[i][1] : i \in NestedIdx}

\* The value a Zoho record holds under a plain key, when it holds the key
SampleValue(k, remote) ==
    CASE k = "Remote_Job"      -> Bool(remote)
      [] k = "Job_Description" -> Str("<p>Build  it</p>")
      [] k = "Salary"          -> Str("100")
      [] OTHER                 -> Str("v")

\* A relation field: absent, null, an object without a name, an object
Absent == <<"absent">>
NestedVariants == {Absent, None, EmptyDict, Dict([name |-> Str("Acme"), id |-> Str("7")])}

\* The plain keys a record holds: all but at most MaxAbsent, or none
PresenceSets ==
    {PlainSourceKeys \ gone : gone \in {g \in SUBSET PlainSourceKeys : Cardinality(g) <= MaxAbsent}}
    \cup {{}}

ZohoRecord(present, remote, cn, am) ==
    LET nested == {k \in NestedSourceKeys :
                      (IF k = "Client_Name" THEN cn ELSE am) # Absent} IN
    Dict([k \in present \cup nested |->
            IF k = "Client_Name" THEN cn
            ELSE IF k = "Account_Manager" THEN am
            ELSE SampleValue(k, remote)])

ZohoRecords ==
    {ZohoRecord(p, r, cn, am) :
        p \in PresenceSets, r \in BOOLEAN, cn \in NestedVariants, am \in NestedVariants}

\* response.json() of a 200 answer: no data, an empty data array, one
\* record; or a body that is not JSON, on which json() raises
JobBodies ==
    {EmptyDict, Dict([info |-> Str("none")]), Dict([data |-> List(<<>>)])}
    \cup {Dict([data |-> List(<<rec>>)]) : rec \in ZohoRecords}
    \cup {Raised("Expecting value")}

\* What the recruiting platform can answer to the GET of fetch_job_data
JobResponses ==
    [kind : {"resp"}, status : {200}, json : JobBodies, msg : {""}]
    \cup [kind : {"resp"}, status : {204, 401, 404, 500}, json : {ErrBody}, msg : {""}]
    \cup [kind : {"exc"}, status : {0}, json : {None},
          msg : {"timed out", "connection refused"}]

\* fetch_job_data without its try/except
fetch_job_data_uncaught(resp) ==
    IF resp.kind = "exc"
    THEN Raised(resp.msg)
    ELSE IF resp.status = 200
         THEN resp.json
         ELSE Dict([error |-> Bool(TRUE), status_code |-> Num(resp.status),
                    message |-> Str("API Error: " \o ToString(resp.status))])

\* fetch_job_data: the body of a 200 answer, an error dictionary with the
\* status code for any other status, an error dictionary with the failure's
\* text for an exception of requests.get or of response.json()
fetch_job_data(resp) ==
    IF resp.kind = "exc"
    THEN Dict([error |-> Bool(TRUE), message |-> Str("Request failed: " \o resp.msg)])
    ELSE IF resp.status = 200
         THEN IF IsRaised(resp.json)
              THEN Dict([error |-> Bool(TRUE),
                         message |-> Str("Request failed: " \o Val(resp.json))])
              ELSE resp.json
         ELSE Dict([error |-> Bool(TRUE), status_code |-> Num(resp.status),
                    message |-> Str("API Error: " \o ToString(resp.status))])

\* v.get('name', ''), an AttributeError when v is no dictionary
NameOf(v) ==
    IF Tag(v) = "dict" THEN Get(v, "name", Str("")) ELSE Raised("AttributeError")

\* rec.get(key, {}).get('name', '') without the guard on the field
NestedNameUnguarded(rec, key) == NameOf(Get(rec, key, EmptyDict))

\* rec.get(key, {}).get('name', '') if rec.get(key) else '', rec the record
NestedName(rec, key) ==
    IF Truthy(Get(rec, key, None))
    THEN NameOf(Get(rec, key, EmptyDict))
    ELSE Str("")

\* The dictionary extract_job_info builds from the first record
CleanedInfo(rec) ==
    LET nested == [i \in NestedIdx |-> NestedName(rec, NestedFields[i][2])] IN
    IF \E i \in NestedIdx : IsRaised(nested[i])
    THEN Raised("AttributeError")
    ELSE Dict([t \in TargetKeys |->
            IF \E i \in NestedIdx : NestedFields[i][1] = t
            THEN nested[CHOOSE i \in NestedIdx : NestedFields[i][1] = t]
            ELSE LET f == PlainFields[CHOOSE i \in PlainIdx : PlainFields[i][1] = t] IN
                 Get(rec, f[2], f[3])])

\* extract_job_info: None for a falsy or error response and for a response
\* without records, else the cleaned record
extract_job_info(job_data) ==
    IF ~Truthy(job_data) \/ Truthy(Get(job_data, "error", None))
    THEN None
    ELSE IF ~Has(job_data, "data") \/ Len(Val(Val(job_data)["data"])) = 0
         THEN None
         ELSE CleanedInfo(Val(Val(job_data)["data"])[1])

\* The similarity data built from an extracted record
SimilarityData(info) ==
    Dict([job_id |-> Val(info)["job_id"],
          requisition_number |-> Val(info)["requisition_number"],
          title |-> Val(info)["job_title"],
          clean_description |-> clean_job_description(Val(info)["job_description"]),
          raw_description |-> Val(info)["job_description"],
          metadata |-> Dict([salary |-> Val(info)["salary"],
                             status |-> Val(info)["status"],
                             remote |-> Val(info)["remote_job"],
                             experience_required |-> Val(info)["work_experience"],
                             client |-> Val(info)["client_name"]])])

\* get_job_for_similarity: fetch, extract, clean and reshape; None when the
\* fetch failed or gave no record
get_job_for_similarity(resp) ==
    LET raw_data == fetch_job_data(resp) IN
    IF IsRaised(raw_data) THEN raw_data
    ELSE IF ~Truthy(raw_data) \/ Truthy(Get(raw_data, "error", None))
    THEN None
    ELSE LET info == extract_job_info(raw_data) IN
         IF IsRaised(info) THEN info
         ELSE IF ~Truthy(info) THEN None
         ELSE SimilarityData(info)

InitJob ==
    /\ response \in JobResponses
    /\ fetched = Pending
    /\ job_info = Pending
    /\ similarity_data = Pending
    /\ IdleReq /\ IdleApp /\ IdleClean /\ IdleEmbed

\* data = fetch_job_data(job_id)
FetchJobData ==
    /\ fetched = Pending
    /\ similarity_data = Pending
    /\ fetched' = fetch_job_data(response)
    /\ UNCHANGED <<response, job_info, similarity_data, reqVars, appVars, cleanVars, embedVars>>

\* job_info = extract_job_info(data)
ExtractJobInfo ==
    /\ fetched # Pending
    /\ ~IsRaised(fetched)
    /\ job_info = Pending
    /\ job_info' = extract_job_info(fetched)
    /\ UNCHANGED <<response, fetched, similarity_data, reqVars, appVars, cleanVars, embedVars>>

\* similarity_data = get_job_for_similarity(job_id)
GetJobForSimilarity ==
    /\ fetched = Pending
    /\ similarity_data = Pending
    /\ similarity_data' = get_job_for_similarity(response)
    /\ UNCHANGED <<response, fetched, job_info, reqVars, appVars, cleanVars, embedVars>>

NextJob == FetchJobData \/ ExtractJobInfo \/ GetJobForSimilarity

SpecJob == InitJob /\ [][NextJob]_vars

EndsWith(s, t) == Len(t) <= Len(s) /\ SubSeq(s, Len(s) - Len(t) + 1, Len(s)) = t

NoRecords(d) == ~Has(d, "data") \/ Len(Val(Val(d)["data"])) = 0

FirstRecord(d) == Val(Val(d)["data"])[1]

C4_WitnessNoRecords ==
    /\ job_info = None
    /\ fetched = Dict([data |-> List(<<>>)])

----------------------------------------------------------------------------
(* prepare_embedding_text, embed_job_description, embed_job_with_metadata *)
(* (openai_api.py)                                                         *)

SampleLimit   == 500
TimeToFillMin == 20
TimeToFillMax == 80
VectorDim     == 2

TitleLabel       == "Job Title: "
DescriptionLabel == "Job Description: "
ExperienceLabel  == "Experience Required: "
SalaryLabel      == "Salary: $"
RemoteLabel      == "Remote Work: "
ClientLabel      == "Client: "

\* "\n\n".join(parts)
RECURSIVE Join(_)
Join(parts) ==
    IF Len(parts) = 0 THEN ""
    ELSE IF Len(parts) = 1 THEN parts[1]
    ELSE parts[1] \o "\n\n" \o Join(Tail(parts))

\* A section appended for every field a dictionary holds, empty or not
SectionAlways(label, v) == IF v # None THEN <<label \o Format(v)>> ELSE <<>>

\* The section appended for a field: one labelled line when the value is
\* truthy, nothing otherwise
Section(label, v) == IF Truthy(v) THEN <<label \o Format(v)>> ELSE <<>>

\* The remote section: guarded by the flag's truth value, so the
\* "Not Available" text is chosen only under a guard that excludes it
RemoteSection(metadata) ==
    IF Truthy(Get(metadata, "remote", None))
    THEN <<IF Truthy(Val(metadata)["remote"])
           THEN RemoteLabel \o "Available"
           ELSE RemoteLabel \o "Not Available">>
    ELSE <<>>

\* prepare_embedding_text
prepare_embedding_text(data) ==
    LET title       == Get(data, "title", Str(""))
        description == Get(data, "clean_description", Str(""))
        metadata    == Get(data, "metadata", EmptyDict)
    IN  Str(Join(Section(TitleLabel, title)
                 \o Section(DescriptionLabel, description)
                 \o Section(ExperienceLabel, Get(metadata, "experience_required", None))
                 \o Section(SalaryLabel, Get(metadata, "salary", None))
                 \o RemoteSection(metadata)
                 \o Section(ClientLabel, Get(metadata, "client", None))))

\* embed_job_description without its try/except
embed_job_description_uncaught(job_text, answer) ==
    IF answer.kind = "exc" THEN Raised(answer.msg)
    ELSE IF Len(answer.data) = 0 THEN Raised("IndexError")
    ELSE List(answer.data[1])

\* embed_job_description: response.data[0].embedding, None on any exception
\* (of the call, or of indexing an answer without data)
embed_job_description(job_text, answer) ==
    IF answer.kind = "exc" THEN None
    ELSE IF Len(answer.data) = 0 THEN None
    ELSE List(answer.data[1])

\* embedding_text[:500] + "..." if len(embedding_text) >= 500 else embedding_text
TextSampleInclusive(text) ==
    IF Len(text) >= SampleLimit
    THEN SubSeq(text, 1, SampleLimit) \o "..."
    ELSE text

\* embedding_text[:500] + "..." if len(embedding_text) > 500 else embedding_text
TextSample(text) ==
    IF Len(text) > SampleLimit
    THEN SubSeq(text, 1, SampleLimit) \o "..."
    ELSE text

\* embed_job_with_metadata; time_to_fill is what random.randint(20, 80) drew
embed_job_with_metadata(data, answer, time_to_fill) ==
    LET text     == prepare_embedding_text(data)
        vector   == embed_job_description(Val(text), answer)
        metadata == Get(data, "metadata", EmptyDict)
    IN  IF IsRaised(vector) THEN vector
        ELSE IF ~Truthy(vector) THEN None
        ELSE Dict([vector |-> vector,
                   metadata |-> Dict([
                       zoho_job_id |-> Get(data, "job_id", Str("")),
                       requisition_number |-> Get(data, "requisition_number", Str("")),
                       job_title |-> Get(data, "title", Str("")),
                       time_to_fill |-> Num(time_to_fill),
                       salary |-> Get(metadata, "salary", Str("")),
                       client |-> Get(metadata, "client", Str("")),
                       remote |-> Get(metadata, "remote", Bool(FALSE)),
                       experience_required |-> Get(metadata, "experience_required", Str("")),
                       status |-> Get(metadata, "status", Str("")),
                       embedding_text |-> Str(TextSample(Val(text)))])])

\* n copies of the character c
RECURSIVE Repeat(_, _)
Repeat(c, n) ==
    IF n = 0 THEN ""
    ELSE LET half == Repeat(c, n \div 2) IN
         half \o half \o (IF n % 2 = 1 THEN c ELSE "")

\* Descriptions that bring a text made of the description alone to exactly
\* SampleLimit characters, and to one more
LongDescriptions ==
    {Str(Repeat("x", SampleLimit - Len(DescriptionLabel) + d)) : d \in 0..1}

\* A dictionary from a function on keys that leaves out the Absent values
Present(f) == Dict([k \in {x \in DOMAIN f : f[x] # Absent} |-> f[k]])

Metadatas ==
    {Present([experience_required |-> e, salary |-> sal, remote |-> r, client |-> c,
              status |-> Str("Open")]) :
        e \in {Absent, Str(""), Str("5 years")},
        sal \in {Absent, Str(""), Str("100")},
        r \in {Absent, Bool(FALSE), Bool(TRUE)},
        c \in {Absent, Str(""), Str("Acme")}}

\* The similarity data handed to the embedding client
Payloads ==
    {Present([job_id |-> Str("821"), requisition_number |-> Str("R1"),
              title |-> t, clean_description |-> d, metadata |-> m]) :
        t \in {Absent, Str(""), Str("Engineer")},
        d \in {Absent, Str(""), Str("Build it")} \cup LongDescriptions,
        m \in {Absent} \cup Metadatas}

\* The vectors the provider returns
Vectors == {[i \in 1..VectorDim |-> x] : x \in {1, 2}}

\* What openai.embeddings.create can do: answer with one embedding, answer
\* without data, raise
ProviderAnswers ==
    [kind : {"ok"}, data : {<<v>> : v \in Vectors} \cup {<<>>}, msg : {""}]
    \cup [kind : {"exc"}, data : {<<>>}, msg : {"rate limit"}]

\* The values of random.randint(20, 80) the model draws
TimeToFillSamples == {TimeToFillMin, TimeToFillMax}

NoAnswer == [kind |-> "none", data |-> <<>>, msg |-> ""]

InitEmbed ==
    /\ payload \in Payloads
    /\ provider = NoAnswer
    /\ embedding_text = Pending
    /\ embedding_result = Pending
    /\ IdleReq /\ IdleApp /\ IdleJob /\ IdleClean

\* embedding_text = prepare_embedding_text(similarity_data)
PrepareEmbeddingText ==
    /\ embedding_text = Pending
    /\ embedding_text' = prepare_embedding_text(payload)
    /\ UNCHANGED <<payload, provider, embedding_result, reqVars, appVars, jobVars, cleanVars>>

\* embedding_result = embed_job_with_metadata(similarity_data)
EmbedJobWithMetadata ==
    /\ embedding_text # Pending
    /\ embedding_result = Pending
    /\ \E answer \in ProviderAnswers, time_to_fill \in TimeToFillSamples :
          /\ provider' = answer
          /\ embedding_result' = embed_job_with_metadata(payload, answer, time_to_fill)
    /\ UNCHANGED <<payload, embedding_text, reqVars, appVars, jobVars, cleanVars>>

NextEmbed == PrepareEmbeddingText \/ EmbedJobWithMetadata

SpecEmbed == InitEmbed /\ [][NextEmbed]_vars

\* The lines of a text: what lies between its line breaks
LineBreaks(text) == {i \in 1..Len(text) : Ch(text, i) = "\n"}

Lines(text) ==
    LET breaks == {0} \cup LineBreaks(text) \cup {Len(text) + 1}
        nth(k) == CHOOSE b \in breaks : Cardinality({x \in breaks : x < b}) = k - 1
    IN  [k \in 1..(Cardinality(breaks) - 1) |->
            SubSeq(text, nth(k) + 1, nth(k + 1) - 1)]

StartsWith(s, t) == Len(t) <= Len(s) /\ SubSeq(s, 1, Len(t)) = t

\* The fields of the payload in the order of the sections, each with its
\* label and its value (None when the payload does not hold it)
PayloadFields ==
    LET metadata == Get(payload, "metadata", EmptyDict) IN
    << <<TitleLabel, Get(payload, "title", None)>>,
       <<DescriptionLabel, Get(payload, "clean_description", None)>>,
       <<ExperienceLabel, Get(metadata, "experience_required", None)>>,
       <<SalaryLabel, Get(metadata, "salary", None)>>,
       <<RemoteLabel, Get(metadata, "remote", None)>>,
       <<ClientLabel, Get(metadata, "client", None)>> >>

\* A field is empty when it is absent, the empty string or, for the remote
\* flag, false
NonEmptyField(v) == v # None /\ v # Str("") /\ v # Bool(FALSE)

\* C7: the text holds one labelled line for each field that is present and
\* non-empty (for the remote flag: true) and none for a field that is absent
\* or empty; the lines come in the order title, description, experience,
\* salary, remote, client, and consecutive ones are separated by exactly one
\* blank line, so that a payload with only title and description gives
\* exactly two labelled lines.
C7_Sections ==
    embedding_text # Pending =>
        LET lines  == Lines(Val(embedding_text))
            fields == PayloadFields
            wanted == {i \in 1..Len(fields) : NonEmptyField(fields[i][2])}
            rank(k) == Cardinality({i \in wanted : i < k}) + 1
        IN  /\ ~IsRaised(embedding_text)
            /\ IF wanted = {} THEN Val(embedding_text) = ""
               ELSE Len(lines) = 2 * Cardinality(wanted) - 1
            /\ \A n \in 1..Len(lines) : n % 2 = 0 => lines[n] = ""
            /\ \A k \in wanted :
                  /\ StartsWith(lines[2 * rank(k) - 1], fields[k][1])
                  /\ fields[k][1] # RemoteLabel =>
                        lines[2 * rank(k) - 1] = fields[k][1] \o Val(fields[k][2])
            /\ \A k \in (1..Len(fields)) \ wanted :
                  \A n \in 1..Len(lines) : ~StartsWith(lines[n], fields[k][1])

C7_Witness ==
    /\ embedding_text = Str("Job Title: Engineer\n\nJob Description: Build it")
    /\ Has(payload, "metadata")
    /\ Has(Val(payload)["metadata"], "salary")
    /\ Val(Val(payload)["metadata"])["salary"] = Str("")
    /\ ~Has(Val(payload)["metadata"], "client")

\* C8: when the metadata carries a remote flag, the text holds the line
\* "Remote Work: Available" for a true flag and the line
\* "Remote Work: Not Available" for a false flag.
C8_RemoteSection ==
    (embedding_text # Pending /\ Has(payload, "metadata")
        /\ Has(Val(payload)["metadata"], "remote")) =>
        LET lines == Lines(Val(embedding_text))
            flag  == Val(Val(Val(payload)["metadata"])["remote"])
            text  == IF flag THEN "Remote Work: Available"
                     ELSE "Remote Work: Not Available"
        IN  \E n \in 1..Len(lines) : lines[n] = text

ProviderFailed == provider.kind = "exc" \/ Len(provider.data) = 0

\* C9: embed_job_description never raises and returns None on a provider
\* error; embed_job_with_metadata returns None exactly when the embed call
\* failed, and otherwise a result holding the vector the provider returned
\* and metadata taken from the payload.
C9_EmbedFailure ==
    embedding_result # Pending =>
        LET vector   == embed_job_description(Val(embedding_text), provider)
            metadata == Get(payload, "metadata", EmptyDict)
        IN  /\ ~IsRaised(vector)
            /\ ProviderFailed => vector = None
            /\ ~IsRaised(embedding_result)
            /\ embedding_result = None <=> ProviderFailed
            /\ embedding_result # None =>
                  LET meta == Val(Val(embedding_result)["metadata"]) IN
                  /\ Val(embedding_result)["vector"] = List(provider.data[1])
                  /\ meta["zoho_job_id"] = Val(payload)["job_id"]
                  /\ meta["requisition_number"] = Val(payload)["requisition_number"]
                  /\ meta["job_title"] = Get(payload, "title", Str(""))
                  /\ meta["salary"] = Get(metadata, "salary", Str(""))
                  /\ meta["client"] = Get(metadata, "client", Str(""))
                  /\ meta["remote"] = Get(metadata, "remote", Bool(FALSE))
                  /\ meta["experience_required"]
                        = Get(metadata, "experience_required", Str(""))
                  /\ meta["status"] = Get(metadata, "status", Str(""))
                  /\ Val(meta["time_to_fill"]) \in TimeToFillMin..TimeToFillMax

C9_Witness ==
    /\ embedding_result = None
    /\ provider.kind = "exc"
    /\ Truthy(embedding_text)

C9_WitnessSuccess ==
    /\ embedding_result # Pending
    /\ embedding_result # None
    /\ Val(embedding_result)["vector"] = List([i \in 1..VectorDim |-> 2])

\* C10: in a successful result the stored text sample is the first 500
\* characters of the prepared text followed by "..." (503 characters) when
\* the text is longer than 500 characters, and the text itself otherwise.
C10_TextSample ==
    (embedding_result # Pending /\ embedding_result # None) =>
        LET text   == Val(embedding_text)
            sample == Val(Val(Val(embedding_result)["metadata"])["embedding_text"])
        IN  IF Len(text) > SampleLimit
            THEN /\ Len(sample) = SampleLimit + 3
                 /\ SubSeq(sample, 1, SampleLimit) = SubSeq(text, 1, SampleLimit)
                 /\ SubSeq(sample, SampleLimit + 1, SampleLimit + 3) = "..."
            ELSE sample = text

C10_Witness ==
    /\ embedding_result # Pending
    /\ embedding_result # None
    /\ Len(Val(embedding_text)) = SampleLimit + 1
    /\ Len(Val(Val(Val(embedding_result)["metadata"])["embedding_text"])) = SampleLimit + 3

C10_WitnessVerbatim ==
    /\ embedding_result # Pending
    /\ embedding_result # None
    /\ Len(Val(embedding_text)) = SampleLimit
    /\ Val(Val(embedding_result)["metadata"])["embedding_text"] = embedding_text

----------------------------------------------------------------------------
(* Start-up, the token refresh helper and the job lookup of the module     *)
(* with the static token (zoho_api.py second half, streamlit_app.py)       *)

DefaultExpiresIn == 3600
DeclaredExpiresIn == 1800

\* What the token endpoint can answer to the POST of
\* get_fresh_access_token_from_refresh: a 200 answer with tokens, with an
\* access token only, with an error object, with a body that is not JSON;
\* an answer with another status; no answer
HelperAnswers ==
    [kind : {"resp"}, status : {200}, text : {""}, msg : {""},
     json : {Dict([access_token |-> Str("tokA"), refresh_token |-> Str("ref1"),
                   expires_in |-> Num(DeclaredExpiresIn)]),
             Dict([access_token |-> Str("tokB")]),
             Dict([error |-> Str("invalid_code")]),
             Raised("Expecting value")}]
    \cup [kind : {"resp"}, status : {400, 500}, text : {"bad request"}, msg : {""},
          json : {None}]
    \cup [kind : {"exc"}, status : {0}, text : {""}, msg : {"timed out"}, json : {None}]

\* get_fresh_access_token_from_refresh: success with what the body of a 200
\* answer holds, a failure with the status and the text of any other
\* answer, a failure with the exception's text when the POST or
\* response.json() raised
get_fresh_access_token_from_refresh(refresh_token, post) ==
    IF post.kind = "exc"
    THEN Dict([success |-> Bool(FALSE), error |-> Str("Request failed"),
               message |-> Str(post.msg)])
    ELSE IF post.status = 200
         THEN IF IsRaised(post.json)
              THEN Dict([success |-> Bool(FALSE), error |-> Str("Request failed"),
                         message |-> Str(Val(post.json))])
              ELSE Dict([success |-> Bool(TRUE),
                         access_token |-> Get(post.json, "access_token", None),
                         refresh_token |-> Get(post.json, "refresh_token", None),
                         expires_in |-> Get(post.json, "expires_in", Num(DefaultExpiresIn)),
                         raw_response |-> post.json])
         ELSE Dict([success |-> Bool(FALSE),
                    error |-> Str("HTTP " \o ToString(post.status)),
                    message |-> Str(post.text)])

\* The Authorization header fetch_job_data sends: built from the module
\* constant ZOHO_ACCESS_TOKEN
FetchAuthorization(zoho_access_token) ==
    "Zoho-oauthtoken " \o Format(zoho_access_token)

\* Importing zoho_api without its check of the environment
ZohoImportUnchecked(v, e) == TRUE

\* Importing zoho_api succeeds: the module with the token cell needs
\* ZOHO_REFRESH_TOKEN, the module with the static token ZOHO_ACCESS_TOKEN;
\* the client id and secret have built-in values
ZohoImportOk(v, e) ==
    IF v = "refresh" THEN Truthy(e["ZOHO_REFRESH_TOKEN"])
    ELSE Truthy(e["ZOHO_ACCESS_TOKEN"])

\* Importing openai_api succeeds: it needs OPENAI_API_KEY
OpenAIImportOk(e) == Truthy(e["OPENAI_API_KEY"])

\* The app's imports: a ValueError of either module ends the process
Startup ==
    /\ proc = "starting"
    /\ proc' = IF ZohoImportOk(variant, env) /\ OpenAIImportOk(env)
               THEN "running" ELSE "aborted"
    /\ current_access_token' =
          IF variant = "refresh" /\ ZohoImportOk(variant, env)
          THEN env["ZOHO_ACCESS_TOKEN"] ELSE current_access_token
    /\ UNCHANGED <<req, env, variant, token_result, lookup,
                   jobVars, cleanVars, embedVars>>

\* The "Get Fresh Access Token" button, pressed with a code entered
GetFreshAccessTokenHelper ==
    /\ proc = "running"
    /\ variant = "static"
    /\ \E post \in HelperAnswers :
          token_result' =
              [answer |-> post,
               result |-> get_fresh_access_token_from_refresh(Str("code1"), post)]
    /\ UNCHANGED <<reqVars, env, variant, proc, lookup, jobVars, cleanVars, embedVars>>

\* The "Test Zoho API Call" button: data = fetch_job_data(job_id)
TestZohoApiCall ==
    /\ proc = "running"
    /\ variant = "static"
    /\ \E answer \in GetOutcomes :
          lookup' = [authorization |->
                        FetchAuthorization(env["ZOHO_ACCESS_TOKEN"]),
                     after |-> token_result.result,
                     result |-> fetch_job_data(answer)]
    /\ UNCHANGED <<reqVars, env, variant, proc, token_result,
                   jobVars, cleanVars, embedVars>>

NextReq == MakeZohoApiRequest \/ GetFreshAccessTokenHelper \/ TestZohoApiCall

SpecReq == InitReq /\ [][NextReq]_vars

\* The answers drawn for requests in the start-up specification
AppPosts == {p \in RefreshOutcomes : p.access_token \in {None, Str("tokA")}}
AppAnswers == {g \in GetOutcomes : g.kind = "resp" /\ g.json # Body2}

AppRequest == Request(AppPosts, AppAnswers)

InitApp ==
    /\ env \in Envs
    /\ variant \in {"refresh", "static"}
    /\ proc = "starting"
    /\ token_result = NoTokenResult
    /\ lookup = NoLookup
    /\ IdleReq /\ IdleJob /\ IdleClean /\ IdleEmbed

NextApp == Startup \/ AppRequest \/ GetFreshAccessTokenHelper \/ TestZohoApiCall

SpecApp == InitApp /\ [][NextApp]_vars

----------------------------------------------------------------------------
(* The refresh helper's result, start-up and the credential of a lookup *)

HelperResult == token_result.result
HelperAnswer == token_result.answer

\* A success that carries the new access token and the time-to-live the
\* token endpoint declared
SuccessShape ==
    /\ Tag(HelperResult) = "dict"
    /\ Get(HelperResult, "success", None) = Bool(TRUE)
    /\ Truthy(Get(HelperResult, "access_token", None))
    /\ HelperAnswer.kind = "resp" /\ ~IsRaised(HelperAnswer.json)
    /\ Has(HelperAnswer.json, "expires_in")
    /\ Get(HelperResult, "expires_in", None) = Val(HelperAnswer.json)["expires_in"]

\* A failure that carries the HTTP status and the response body
FailureShape ==
    /\ Tag(HelperResult) = "dict"
    /\ Get(HelperResult, "success", None) = Bool(FALSE)
    /\ HelperAnswer.kind = "resp"
    /\ Get(HelperResult, "error", None) = Str("HTTP " \o ToString(HelperAnswer.status))
    /\ Get(HelperResult, "message", None) = Str(HelperAnswer.text)

\* C11: get_fresh_access_token_from_refresh never raises, and what it
\* returns is either a success carrying the new access token and its
\* declared time-to-live, or a failure carrying the HTTP status and the
\* response body.
C11_TwoShapes ==
    HelperResult # Pending =>
        /\ ~IsRaised(HelperResult)
        /\ SuccessShape \/ FailureShape

\* The helper was called and the token endpoint answered 200 with an error
\* object in place of a token: the helper reports a success without a token
C11_SuccessWithoutToken ==
    /\ HelperAnswer.kind = "resp" /\ HelperAnswer.status = 200
    /\ HelperAnswer.json = Dict([error |-> Str("invalid_code")])
    /\ Get(HelperResult, "success", None) = Bool(TRUE)
    /\ Get(HelperResult, "access_token", Pending) = None
    /\ Get(HelperResult, "expires_in", None) = Num(DefaultExpiresIn)

\* The credentials the loaded modules cannot start without
Required(v) ==
    {"OPENAI_API_KEY"} \cup (IF v = "refresh" THEN {"ZOHO_REFRESH_TOKEN"}
                             ELSE {"ZOHO_ACCESS_TOKEN"})

\* No request of any kind has been issued
NothingIssued ==
    req = NoRequest /\ token_result = NoTokenResult /\ lookup = NoLookup

\* C13 as stated: a process started with any of the five credentials absent
\* is aborted and issues no request.
C13_AsStated ==
    (proc # "starting" /\ \E k \in EnvKeys : ~Truthy(env[k])) =>
        (proc = "aborted" /\ NothingIssued)

\* C13, amended: start-up is aborted exactly when a credential the loaded
\* modules require is absent or empty: OPENAI_API_KEY, and ZOHO_REFRESH_TOKEN
\* for the module with the token cell or ZOHO_ACCESS_TOKEN for the module
\* with the static token. The client id and secret have built-in values,
\* and the access token is optional for the module with the token cell. An
\* aborted process issues no request.
C13_FatalStartup ==
    /\ proc # "starting" =>
          (proc = "aborted" <=> \E k \in Required(variant) : ~Truthy(env[k]))
    /\ proc = "aborted" => NothingIssued
    /\ ~NothingIssued => \A k \in Required(variant) : Truthy(env[k])

\* Start-up aborted for a missing refresh token
C13_Witness ==
    /\ proc = "aborted"
    /\ variant = "refresh"
    /\ env["ZOHO_REFRESH_TOKEN"] = None
    /\ Truthy(env["OPENAI_API_KEY"])
    /\ NothingIssued

\* A process without client id, secret and access token runs and requests
C13_WitnessRunning ==
    /\ proc = "running"
    /\ variant = "refresh"
    /\ env["ZOHO_CLIENT_ID"] = None /\ env["ZOHO_CLIENT_SECRET"] = None
    /\ env["ZOHO_ACCESS_TOKEN"] = None
    /\ req.result = Body1

\* The refresh helper last returned a success with a token
HelperRefreshed(r) ==
    /\ r # Pending
    /\ Get(r, "success", None) = Bool(TRUE)
    /\ Truthy(Get(r, "access_token", None))

\* C14: after a token refresh succeeds the token cell holds the new access
\* token, and every later job request authenticates with the refreshed
\* token, not with the one loaded at start-up.
C14_RefreshedCredential ==
    /\ \A i \in 1..Len(req.refreshes) :
          LET f == req.refreshes[i] IN
          Truthy(f.ret) =>
              /\ f.after = f.ret
              /\ Len(req.gets) > f.gets_before =>
                    req.gets[f.gets_before + 1].auth = f.ret
    /\ (lookup.result # Pending /\ HelperRefreshed(lookup.after)) =>
          lookup.authorization =
              "Zoho-oauthtoken " \o Format(Val(lookup.after)["access_token"])

\* A lookup made after the helper obtained tokA is authenticated with the
\* token of the environment
C14_StaleCredential ==
    /\ HelperRefreshed(lookup.after)
    /\ Val(lookup.after)["access_token"] = Str("tokA")
    /\ lookup.authorization = "Zoho-oauthtoken tok0"

====
